---- MODULE Spec2Model ----
(***************************************************************************)
(* Model of scripts/utils.py (token provider, HTTP wrapper, workspace      *)
(* resolver, artifact publisher) and of the deployment drivers             *)
(* scripts/deploy-dev.py and scripts/deploy-prd.py.                        *)
(*                                                                         *)
(* The program is sequential.  Each behaviour exercises one entry point    *)
(* (scenario), chosen together with its inputs in Init; the remote         *)
(* services answer every request with a status and body drawn from small   *)
(* sets.                                                                   *)
(***************************************************************************)
EXTENDS Integers, Sequences, FiniteSets, TLC

VARIABLES
    scenario,      \* which entry point this behaviour runs
    \* ---- get_access_token_spn
    environ,       \* os.environ restricted to the three FABRIC_* names
    tokPc,         \* "env" | "post" | "returned" | "raised"
    tokReqs,       \* number of POSTs sent to the identity endpoint
    tokResp,       \* last identity response [status, access_token]
    tokResult,     \* returned token
    tokError,      \* raised exception
    \* ---- get_or_create_workspace
    wsListing,     \* the service's workspace collection (a sequence)
    wsName,        \* workspace_name
    capacityId,    \* capacity_id
    resPc,         \* "list" | "create" | "returned" | "raised"
    resListed,     \* local `workspaces`: the listing the GET returned
    resLog,        \* requests issued by this resolve call, in order
    resCreateResp, \* the create response [status, hasId, id]
    resResult,     \* returned workspace id
    resError,      \* raised exception
    \* ---- create_or_update_item_from_folder and the item service
    items,         \* items visible in the workspace (a sequence)
    pending,       \* creations accepted with 202, not yet visible
    nextId,        \* the service's identifier counter
    accepted,      \* ids of the creations the service answered with 202
    folder,        \* [base, nfiles]: folder base name and number of files
    itemType,      \* item_type
    pubPc,         \* "idle"|"build"|"list"|"create"|"update"|"returned"|"raised"
    existingItems, \* local existing_items: the listing the GET returned
    itemId,        \* local item_id after the lookup
    reqLog,        \* requests issued by the current publish call, in order
    createResp,    \* the create response of the current call
    pubResult,     \* returned item id
    pubError,      \* raised exception
    calls,         \* publish calls started so far
    staleLookup,   \* some lookup ran while an accepted creation was not yet visible
    \* ---- deploy-dev.py / deploy-prd.py
    script,        \* "dev" | "prd"
    drvPc,         \* "call" | "in_stage" | "exited"
    drvStage,      \* index of the current stage, 1..4
    stageState,    \* per stage: "not_started" | "running" | "ok" | "raised"
    stageReqs,     \* per stage: requests issued
    exitStatus     \* "running" | "zero" | "nonzero"

tokVars == <<environ, tokPc, tokReqs, tokResp, tokResult, tokError>>
resVars == <<wsListing, wsName, capacityId, resPc, resListed, resLog,
             resCreateResp, resResult, resError>>
svcVars == <<items, pending, nextId, accepted>>
pubVars == <<folder, itemType, pubPc, existingItems, itemId, reqLog,
             createResp, pubResult, pubError, calls, staleLookup>>
drvVars == <<script, drvPc, drvStage, stageState, stageReqs, exitStatus>>
vars == <<scenario, tokVars, resVars, svcVars, pubVars, drvVars>>

\* Python's None, and the absence of an exception.
None == "None"
Err(class, msg) == [class |-> class, msg |-> msg]
NoError == Err("None", "")

(***************************************************************************)
(* Bounds of the model.                                                    *)
(***************************************************************************)
MaxCalls == 3       \* sequential publish calls per behaviour
MaxFiles == 1       \* files in the artifact folder
MaxStageReqs == 2   \* requests a driver stage may issue

\* HTTP statuses the services may answer with.
Statuses == {200, 201, 202, 204, 400, 404, 500}
ListStatuses == {200, 401, 404, 500}
TokStatuses == {200, 201, 400, 401}

(***************************************************************************)
(* _get_env_or_fail and get_access_token_spn                               *)
(***************************************************************************)
EnvNames == <<"FABRIC_TENANT_ID", "FABRIC_CLIENT_ID", "FABRIC_CLIENT_SECRET">>
EnvValues == {None, "", "v"}
TokenFields == {None, "", "TOK"}

\* `if not value`: os.getenv gave None or the empty string.
EnvMissing(value) == value = None \/ value = ""

\* The first of the three names whose lookup raises, in the order the code
\* reads them; 0 when all three are set.
FirstMissingEnv(env) ==
    IF \E i \in 1..Len(EnvNames) : EnvMissing(env[EnvNames[i]])
    THEN CHOOSE i \in 1..Len(EnvNames) :
             /\ EnvMissing(env[EnvNames[i]])
             /\ \A j \in 1..(i - 1) : ~EnvMissing(env[EnvNames[j]])
    ELSE 0

\* Mutant of TokenStatusRejected: only an error status is rejected.
TokenStatusRejectedOnError(status) == status >= 400

\* `resp.status_code != 200`
TokenStatusRejected(status) == status # 200

\* `if not token`: the field is absent (None) or empty.
TokenFieldRejected(token) == token = None \/ token = ""

TokErr(msg, name) == [class |-> "FabricAuthError", msg |-> msg, name |-> name]
NoTokErr == [class |-> "None", msg |-> "", name |-> ""]

\* Lines 36-38: the three environment lookups, in order.
TokEnvOutcome(env) ==
    LET i == FirstMissingEnv(env) IN
      IF i # 0
      THEN [pc |-> "raised",
            error |-> TokErr("Missing environment variable", EnvNames[i])]
      ELSE [pc |-> "post", error |-> NoTokErr]

\* Lines 51-59: what the function does with the identity response.
TokPostOutcome(status, token) ==
    IF TokenStatusRejected(status)
    THEN [pc |-> "raised", result |-> None,
          error |-> TokErr("Failed to acquire token", "")]
    ELSE IF TokenFieldRejected(token)
    THEN [pc |-> "raised", result |-> None,
          error |-> TokErr("Token response does not contain 'access_token'", "")]
    ELSE [pc |-> "returned", result |-> token, error |-> NoTokErr]

TokGetEnv ==
    /\ scenario = "token"
    /\ tokPc = "env"
    /\ LET o == TokEnvOutcome(environ) IN
         /\ tokPc' = o.pc
         /\ tokError' = o.error
    /\ UNCHANGED <<scenario, environ, tokReqs, tokResp, tokResult,
                   resVars, svcVars, pubVars, drvVars>>

\* Line 50: the token request; the identity endpoint answers.
TokPost ==
    /\ scenario = "token"
    /\ tokPc = "post"
    /\ \E status \in TokStatuses, token \in TokenFields :
         LET o == TokPostOutcome(status, token) IN
           /\ tokReqs' = tokReqs + 1
           /\ tokResp' = [status |-> status, access_token |-> token]
           /\ tokPc' = o.pc
           /\ tokResult' = o.result
           /\ tokError' = o.error
    /\ UNCHANGED <<scenario, environ, resVars, svcVars, pubVars, drvVars>>

(***************************************************************************)
(* fabric_request                                                          *)
(***************************************************************************)
\* Mutant of RespOk: only 200 counts as a success.
RespOkOnly200(status) == status = 200

\* requests.Response.ok: raise_for_status() raises for 400 <= status < 600.
RespOk(status) == ~(400 <= status /\ status < 600)

\* One call of fabric_request as the record of what it did: the request it
\* sent, the status it got, and whether it raised FabricApiError (line 79).
FabricRequest(method, path, target, status) ==
    [method |-> method, path |-> path, target |-> target,
     status |-> status, raised |-> ~RespOk(status)]

ApiError == Err("FabricApiError", "HTTP error status")

\* Whether the body a service sends with a status holds an "id": 204 carries no
\* body, and an error body describes the error.
BodyHasId(status) == IF status = 204 \/ status >= 400 THEN {FALSE} ELSE BOOLEAN

(***************************************************************************)
(* get_or_create_workspace                                                 *)
(***************************************************************************)
Ws(id, name) == [id |-> id, displayName |-> name]

WsNames == {"DevWorkspace", "ProdWorkspace"}
Capacities == {None, "", "cap"}
WsListings ==
    { <<>>,
      <<Ws("w1", "DevWorkspace")>>,
      <<Ws("w1", "Other"), Ws("w2", "DevWorkspace")>>,
      <<Ws("w1", "DevWorkspace"), Ws("w2", "DevWorkspace")>>,
      <<Ws("w1", "ProdWorkspace"), Ws("w2", "DevWorkspace"),
        Ws("w3", "ProdWorkspace")>> }

\* Mutant of FirstMatch: the scan keeps going and the last match wins.
LastMatch(listing, name) ==
    IF \E i \in 1..Len(listing) : listing[i].displayName = name
    THEN CHOOSE i \in 1..Len(listing) :
             /\ listing[i].displayName = name
             /\ \A j \in (i + 1)..Len(listing) : listing[j].displayName # name
    ELSE 0

\* Lines 105-109 and 202-205: index of the first entry of a listing whose
\* displayName equals name; 0 when there is none.
FirstMatch(listing, name) ==
    IF \E i \in 1..Len(listing) : listing[i].displayName = name
    THEN CHOOSE i \in 1..Len(listing) :
             /\ listing[i].displayName = name
             /\ \A j \in 1..(i - 1) : listing[j].displayName # name
    ELSE 0

\* Lines 112-114: the capacity is sent only when it is truthy.
WsCreateBody(name, capacity) ==
    IF capacity # None /\ capacity # ""
    THEN [displayName |-> name, capacityId |-> capacity]
    ELSE [displayName |-> name, capacityId |-> None]

\* Lines 99-109: what the function does with the listing response.
ResListOutcome(req, listing, name) ==
    LET m == FirstMatch(listing, name) IN
      IF req.raised
      THEN [pc |-> "raised", result |-> None, error |-> ApiError]
      ELSE IF m # 0
      THEN [pc |-> "returned", result |-> listing[m].id, error |-> NoError]
      ELSE [pc |-> "create", result |-> None, error |-> NoError]

\* Mutant of ResCreateOutcome: the function falls off its end after a
\* successful create and returns None.
ResCreateOutcomeNoReturn(req, hasId, newId) ==
    IF req.raised
    THEN [pc |-> "raised", result |-> None, error |-> ApiError]
    ELSE IF ~hasId
    THEN [pc |-> "raised", result |-> None, error |-> Err("KeyError", "id")]
    ELSE [pc |-> "returned", result |-> None, error |-> NoError]

\* Lines 117-121: what the function does with the create response.
ResCreateOutcome(req, hasId, newId) ==
    IF req.raised
    THEN [pc |-> "raised", result |-> None, error |-> ApiError]
    ELSE IF ~hasId
    THEN [pc |-> "raised", result |-> None, error |-> Err("KeyError", "id")]
    ELSE [pc |-> "returned", result |-> newId, error |-> NoError]

\* Lines 99-109: GET /workspaces and the scan of the listing.
ResList ==
    /\ scenario = "resolve"
    /\ resPc = "list"
    /\ \E status \in ListStatuses :
         LET req == FabricRequest("GET", "workspaces", None, status)
             o == ResListOutcome(req, wsListing, wsName)
         IN /\ resLog' = Append(resLog, req)
            /\ resListed' = IF req.raised THEN resListed ELSE wsListing
            /\ resPc' = o.pc
            /\ resResult' = o.result
            /\ resError' = o.error
    /\ UNCHANGED <<scenario, wsListing, wsName, capacityId, resCreateResp,
                   tokVars, svcVars, pubVars, drvVars>>

\* Lines 112-121: POST /workspaces and the reading of its response.  The
\* service adds the workspace when it answers with a success status.
ResCreate ==
    /\ scenario = "resolve"
    /\ resPc = "create"
    /\ \E status \in Statuses :
       \E hasId \in BodyHasId(status) :
         LET req == FabricRequest("POST", "workspaces",
                                  WsCreateBody(wsName, capacityId).capacityId,
                                  status)
             newId == "w" \o ToString(Len(wsListing) + 1)
             o == ResCreateOutcome(req, hasId, newId)
         IN /\ resLog' = Append(resLog, req)
            /\ resCreateResp' = [status |-> status, hasId |-> hasId,
                                 id |-> IF hasId THEN newId ELSE None]
            /\ wsListing' = IF RespOk(status)
                            THEN Append(wsListing, Ws(newId, wsName))
                            ELSE wsListing
            /\ resPc' = o.pc
            /\ resResult' = o.result
            /\ resError' = o.error
    /\ UNCHANGED <<scenario, wsName, capacityId, resListed,
                   tokVars, svcVars, pubVars, drvVars>>

(***************************************************************************)
(* The item service, list_items_by_type, build_definition_parts_from_folder *)
(* and create_or_update_item_from_folder                                   *)
(***************************************************************************)
It(id, name, type) == [id |-> id, displayName |-> name, type |-> type]

ItemTypes == {"SemanticModel", "Report"}
FolderBases == { <<"A", ".", "R">>, <<"A", "B">>, <<"A", ".", "b", ".", "R">> }
InitialItems ==
    { <<>>,
      <<It("i1", <<"A">>, "Report")>>,
      <<It("i1", <<"A">>, "SemanticModel"), It("i2", <<"A", "B">>, "Report")>>,
      <<It("i1", <<"Z">>, "Report"), It("i2", <<"A">>, "Report"),
        It("i3", <<"A", "B">>, "SemanticModel")>> }

\* Lines 188-191: the folder's base name cut at its first ".".
DisplayName(base) ==
    IF \E i \in 1..Len(base) : base[i] = "."
    THEN LET d == CHOOSE i \in 1..Len(base) :
                      /\ base[i] = "."
                      /\ \A j \in 1..(i - 1) : base[j] # "."
         IN SubSeq(base, 1, d - 1)
    ELSE base

\* GET /workspaces/{id}/items?type={type}: the service filters by type.
ItemsOfType(listing, type) == SelectSeq(listing, LAMBDA it : it.type = type)

\* Lines 148-170: one part per file; no part at all raises ValueError.
PartsEmpty(nfiles) == nfiles = 0

\* Mutant of PubBuildOutcome: the emptiness check is missing.
PubBuildOutcomeUnchecked(nfiles) == [pc |-> "list", error |-> NoError]

\* Lines 196-197: the outcome of building the definition.
PubBuildOutcome(nfiles) ==
    IF PartsEmpty(nfiles)
    THEN [pc |-> "raised",
          error |-> Err("ValueError", "No files found in PBIP folder")]
    ELSE [pc |-> "list", error |-> NoError]

\* Mutant of PubListOutcome: the lookup result is ignored and the item is
\* always created.
PubListOutcomeAlwaysCreate(req, existing, name) ==
    IF req.raised
    THEN [pc |-> "raised", itemId |-> None, error |-> ApiError]
    ELSE [pc |-> "create", itemId |-> None, error |-> NoError]

\* Lines 200-207, 241: what the function does with the listing response.
PubListOutcome(req, existing, name) ==
    LET m == FirstMatch(existing, name) IN
      IF req.raised
      THEN [pc |-> "raised", itemId |-> None, error |-> ApiError]
      ELSE IF m # 0
      THEN [pc |-> "update", itemId |-> existing[m].id, error |-> NoError]
      ELSE [pc |-> "create", itemId |-> None, error |-> NoError]

\* Mutant of PubCreateOutcome: a failed create request is sent again.
PubCreateOutcomeRetry(req, hasId, newId) ==
    IF req.raised
    THEN [pc |-> "create", result |-> None, error |-> NoError]
    ELSE IF ~hasId
    THEN [pc |-> "raised", result |-> None,
          error |-> Err("FabricApiError", "Fabric failed to create item")]
    ELSE [pc |-> "returned", result |-> newId, error |-> NoError]

\* Lines 220-239: what the function does with the create response.
PubCreateOutcome(req, hasId, newId) ==
    IF req.raised
    THEN [pc |-> "raised", result |-> None, error |-> ApiError]
    ELSE IF ~hasId
    THEN [pc |-> "raised", result |-> None,
          error |-> Err("FabricApiError", "Fabric failed to create item")]
    ELSE [pc |-> "returned", result |-> newId, error |-> NoError]

\* A new call of create_or_update_item_from_folder, after the former one
\* returned or raised.
PubCall ==
    /\ scenario = "publish"
    /\ pubPc \in {"idle", "returned", "raised"}
    /\ calls < MaxCalls
    /\ calls' = calls + 1
    /\ pubPc' = "build"
    /\ existingItems' = <<>>
    /\ itemId' = None
    /\ reqLog' = <<>>
    /\ createResp' = [status |-> 0, hasId |-> FALSE, id |-> None]
    /\ pubResult' = None
    /\ pubError' = NoError
    /\ UNCHANGED <<scenario, folder, itemType, staleLookup,
                   tokVars, resVars, svcVars, drvVars>>

\* Lines 188-197: display name and definition parts.
PubBuild ==
    /\ scenario = "publish"
    /\ pubPc = "build"
    /\ LET o == PubBuildOutcome(folder.nfiles) IN
         /\ pubPc' = o.pc
         /\ pubError' = o.error
    /\ UNCHANGED <<scenario, folder, itemType, existingItems, itemId, reqLog,
                   createResp, pubResult, calls, staleLookup,
                   tokVars, resVars, svcVars, drvVars>>

\* Lines 200-207: the listing of the items of the type and the lookup.
PubList ==
    /\ scenario = "publish"
    /\ pubPc = "list"
    /\ \E status \in ListStatuses :
         LET req == FabricRequest("GET", "items", itemType, status)
             existing == ItemsOfType(items, itemType)
             name == DisplayName(folder.base)
             o == PubListOutcome(req, existing, name)
         IN /\ reqLog' = Append(reqLog, req)
            /\ existingItems' = IF req.raised THEN existingItems ELSE existing
            /\ pubPc' = o.pc
            /\ itemId' = o.itemId
            /\ pubError' = o.error
            /\ staleLookup' =
                 (staleLookup \/
                  (~req.raised /\
                   \E i \in 1..Len(pending) :
                       /\ pending[i].displayName = name
                       /\ pending[i].type = itemType))
    /\ UNCHANGED <<scenario, folder, itemType, createResp, pubResult, calls,
                   tokVars, resVars, svcVars, drvVars>>

\* Lines 208-239: POST /workspaces/{id}/items and the reading of its
\* response.  The service creates the item at once when it answers with a
\* success status other than 202, and accepts it for later creation with 202.
PubCreate ==
    /\ scenario = "publish"
    /\ pubPc = "create"
    /\ \E status \in Statuses :
       \E hasId \in BodyHasId(status) :
         LET req == FabricRequest("POST", "items", None, status)
             newId == "i" \o ToString(nextId)
             item == It(newId, DisplayName(folder.base), itemType)
             o == PubCreateOutcome(req, hasId, newId)
         IN /\ reqLog' = Append(reqLog, req)
            /\ createResp' = [status |-> status, hasId |-> hasId,
                              id |-> IF hasId THEN newId ELSE None]
            /\ items' = IF RespOk(status) /\ status # 202
                        THEN Append(items, item) ELSE items
            /\ pending' = IF status = 202
                          THEN Append(pending, item) ELSE pending
            /\ nextId' = IF RespOk(status) THEN nextId + 1 ELSE nextId
            /\ accepted' = IF status = 202
                           THEN accepted \cup {newId} ELSE accepted
            /\ pubPc' = o.pc
            /\ itemId' = o.result
            /\ pubResult' = o.result
            /\ pubError' = o.error
    /\ UNCHANGED <<scenario, folder, itemType, existingItems, calls,
                   staleLookup, tokVars, resVars, drvVars>>

\* Lines 241-250: the branch taken when the lookup found an item.  It reads
\* `resp`, a local the branch never assigned: Python raises
\* UnboundLocalError, and no request has been sent.
PubUpdate ==
    /\ scenario = "publish"
    /\ pubPc = "update"
    /\ pubPc' = "raised"
    /\ pubError' = Err("UnboundLocalError", "resp")
    /\ UNCHANGED <<scenario, folder, itemType, existingItems, itemId, reqLog,
                   createResp, pubResult, calls, staleLookup,
                   tokVars, resVars, svcVars, drvVars>>

\* The service completes a creation it accepted with 202: the item becomes
\* visible in the listing.
Materialize ==
    /\ scenario = "publish"
    /\ pending # <<>>
    /\ items' = Append(items, Head(pending))
    /\ pending' = Tail(pending)
    /\ UNCHANGED <<scenario, nextId, accepted,
                   tokVars, resVars, pubVars, drvVars>>

(***************************************************************************)
(* deploy-dev.py and deploy-prd.py                                         *)
(***************************************************************************)
Stages == <<"authenticate", "workspace", "semantic_model", "report">>
StageIds == 1..Len(Stages)

\* Mutant of DrvOnRaise: the exception is swallowed and the script goes on.
DrvOnRaiseContinue(s) ==
    IF s < Len(Stages)
    THEN [pc |-> "call", stage |-> s + 1, exit |-> "running"]
    ELSE [pc |-> "exited", stage |-> s, exit |-> "zero"]

\* An exception leaving a stage's call is not caught: the interpreter ends
\* the run with a non-zero exit status.
DrvOnRaise(s) == [pc |-> "exited", stage |-> s, exit |-> "nonzero"]

\* A stage's call returned: the next statement of the script runs; after
\* the last one the script ends and the interpreter exits with status zero.
DrvOnReturn(s) ==
    IF s < Len(Stages)
    THEN [pc |-> "call", stage |-> s + 1, exit |-> "running"]
    ELSE [pc |-> "exited", stage |-> s, exit |-> "zero"]

\* The script reaches the call of its next stage (deploy-dev.py lines 21,
\* 24, 28, 35; deploy-prd.py lines 19, 22, 25, 31).
DrvCall ==
    /\ scenario = "driver"
    /\ drvPc = "call"
    /\ drvPc' = "in_stage"
    /\ stageState' = [stageState EXCEPT ![drvStage] = "running"]
    /\ UNCHANGED <<scenario, script, drvStage, stageReqs, exitStatus,
                   tokVars, resVars, svcVars, pubVars>>

\* The called function issues a request.
StageRequest ==
    /\ scenario = "driver"
    /\ drvPc = "in_stage"
    /\ stageReqs[drvStage] < MaxStageReqs
    /\ stageReqs' = [stageReqs EXCEPT ![drvStage] = @ + 1]
    /\ UNCHANGED <<scenario, script, drvPc, drvStage, stageState, exitStatus,
                   tokVars, resVars, svcVars, pubVars>>

\* The called function returns.
StageReturn ==
    /\ scenario = "driver"
    /\ drvPc = "in_stage"
    /\ LET n == DrvOnReturn(drvStage) IN
         /\ drvPc' = n.pc
         /\ drvStage' = n.stage
         /\ exitStatus' = n.exit
    /\ stageState' = [stageState EXCEPT ![drvStage] = "ok"]
    /\ UNCHANGED <<scenario, script, stageReqs,
                   tokVars, resVars, svcVars, pubVars>>

\* The called function raises (or its name is not defined: NameError).
StageRaise ==
    /\ scenario = "driver"
    /\ drvPc = "in_stage"
    /\ LET n == DrvOnRaise(drvStage) IN
         /\ drvPc' = n.pc
         /\ drvStage' = n.stage
         /\ exitStatus' = n.exit
    /\ stageState' = [stageState EXCEPT ![drvStage] = "raised"]
    /\ UNCHANGED <<scenario, script, stageReqs,
                   tokVars, resVars, svcVars, pubVars>>

(***************************************************************************)
(* The specification                                                       *)
(***************************************************************************)
Scenarios == {"token", "resolve", "publish", "driver"}

Init ==
    /\ scenario \in Scenarios
    \* token provider
    /\ environ \in IF scenario = "token"
                   THEN [{EnvNames[i] : i \in 1..Len(EnvNames)} -> EnvValues]
                   ELSE {[n \in {EnvNames[i] : i \in 1..Len(EnvNames)} |-> "v"]}
    /\ tokPc = "env"
    /\ tokReqs = 0
    /\ tokResp = [status |-> 0, access_token |-> None]
    /\ tokResult = None
    /\ tokError = NoTokErr
    \* workspace resolver
    /\ wsListing \in IF scenario = "resolve" THEN WsListings ELSE {<<>>}
    /\ wsName \in IF scenario = "resolve" THEN WsNames ELSE {"DevWorkspace"}
    /\ capacityId \in IF scenario = "resolve" THEN Capacities ELSE {None}
    /\ resPc = "list"
    /\ resListed = <<>>
    /\ resLog = <<>>
    /\ resCreateResp = [status |-> 0, hasId |-> FALSE, id |-> None]
    /\ resResult = None
    /\ resError = NoError
    \* artifact publisher and item service
    /\ items \in IF scenario = "publish" THEN InitialItems ELSE {<<>>}
    /\ pending = <<>>
    /\ nextId = Len(items) + 1
    /\ accepted = {}
    /\ folder \in IF scenario = "publish"
                  THEN [base : FolderBases, nfiles : 0..MaxFiles]
                  ELSE {[base |-> <<"A", ".", "R">>, nfiles |-> 1]}
    /\ itemType \in IF scenario = "publish" THEN ItemTypes ELSE {"Report"}
    /\ pubPc = "idle"
    /\ existingItems = <<>>
    /\ itemId = None
    /\ reqLog = <<>>
    /\ createResp = [status |-> 0, hasId |-> FALSE, id |-> None]
    /\ pubResult = None
    /\ pubError = NoError
    /\ calls = 0
    /\ staleLookup = FALSE
    \* deployment driver
    /\ script \in IF scenario = "driver" THEN {"dev", "prd"} ELSE {"dev"}
    /\ drvPc = "call"
    /\ drvStage = 1
    /\ stageState = [s \in StageIds |-> "not_started"]
    /\ stageReqs = [s \in StageIds |-> 0]
    /\ exitStatus = "running"

Next ==
    \/ TokGetEnv
    \/ TokPost
    \/ ResList
    \/ ResCreate
    \/ PubCall
    \/ PubBuild
    \/ PubList
    \/ PubCreate
    \/ PubUpdate
    \/ Materialize
    \/ DrvCall
    \/ StageRequest
    \/ StageReturn
    \/ StageRaise

Spec == Init /\ [][Next]_vars

(***************************************************************************)
(* Properties                                                              *)
(***************************************************************************)
PubFinished == scenario = "publish" /\ pubPc \in {"returned", "raised"}
ResFinished == scenario = "resolve" /\ resPc \in {"returned", "raised"}
TokFinished == scenario = "token" /\ tokPc \in {"returned", "raised"}

\* The publish call's listing request succeeded and returned existingItems.
PubListed == scenario = "publish" /\ reqLog # <<>> /\ reqLog[1].status < 400
\* The resolve call's listing request succeeded and returned resListed.
ResListed == scenario = "resolve" /\ resLog # <<>> /\ resLog[1].status < 400

PubName == DisplayName(folder.base)
CreateReqs == {i \in 1..Len(reqLog) :
                   reqLog[i].method = "POST" /\ reqLog[i].path = "items"}
UpdateReqs == {i \in 1..Len(reqLog) :
                   reqLog[i].method = "POST" /\ reqLog[i].path = "updateDefinition"}
ListReqs == {i \in 1..Len(reqLog) : reqLog[i].method = "GET"}
WsCreateReqs == {i \in 1..Len(resLog) :
                     resLog[i].method = "POST" /\ resLog[i].path = "workspaces"}

\* C1: when the listing holds an item named like the folder, the finished
\* publish call has sent an update-definition request against that item's
\* id, has sent no create request, and, unless that request failed, has
\* returned that id.
C1_UpdateOnMatch ==
    (PubFinished /\ PubListed
       /\ \E i \in 1..Len(existingItems) : existingItems[i].displayName = PubName)
    => \E i \in 1..Len(existingItems) :
          /\ existingItems[i].displayName = PubName
          /\ \A j \in 1..(i - 1) : existingItems[j].displayName # PubName
          /\ CreateReqs = {}
          /\ \E k \in UpdateReqs :
                /\ reqLog[k].target = existingItems[i].id
                /\ (reqLog[k].status < 400
                      => pubPc = "returned" /\ pubResult = existingItems[i].id)

\* C2: when no item matched and the create request was answered 202 without
\* an item body, the finished publish call either returned the id of a
\* matching item found by one of at most 40 later listings, or ended with
\* PublishTimeoutError after 40 listings.
C2_PollAfter202 ==
    (PubFinished /\ CreateReqs # {}
       /\ createResp.status = 202 /\ ~createResp.hasId)
    => LET polls == {i \in ListReqs : \E k \in CreateReqs : k < i} IN
         /\ Cardinality(polls) <= 40
         /\ \/ /\ pubPc = "returned"
               /\ \E i \in 1..Len(items) :
                     /\ items[i].displayName = PubName
                     /\ items[i].type = itemType
                     /\ items[i].id = pubResult
            \/ /\ pubPc = "raised"
               /\ pubError.class = "PublishTimeoutError"
               /\ Cardinality(polls) = 40

\* C3: when the workspace listing holds an entry named wsName, resolve
\* returns the id of the first such entry and has sent nothing but the
\* listing GET, whatever the capacity identifier.
C3_ExistingWorkspaceReturned ==
    (ResListed /\ \E i \in 1..Len(resListed) : resListed[i].displayName = wsName)
    => /\ resPc = "returned"
       /\ \E i \in 1..Len(resListed) :
             /\ resListed[i].displayName = wsName
             /\ \A j \in 1..(i - 1) : resListed[j].displayName # wsName
             /\ resResult = resListed[i].id
       /\ Len(resLog) = 1
       /\ resLog[1].method = "GET"

\* C3 witness: a listing with two entries of the name and a capacity given;
\* the first entry's id came back.
C3_Witness ==
    /\ scenario = "resolve"
    /\ resPc = "returned"
    /\ capacityId = "cap"
    /\ Len(resListed) = 2
    /\ resListed[1].displayName = wsName
    /\ resListed[2].displayName = wsName
    /\ resResult = resListed[1].id
    /\ resResult # resListed[2].id

\* C4: when the workspace listing holds no entry named wsName, the finished
\* resolve call has sent exactly one create request, and if that request
\* succeeded with an id in its body, resolve returned that id.
C4_AbsentWorkspaceCreatedOnce ==
    (ResFinished /\ ResListed
       /\ \A i \in 1..Len(resListed) : resListed[i].displayName # wsName)
    => /\ Cardinality(WsCreateReqs) = 1
       /\ \A k \in WsCreateReqs :
             (resLog[k].status < 400 /\ resCreateResp.hasId)
             => /\ resPc = "returned"
                /\ resResult = resCreateResp.id
                /\ resResult # None

\* C4 witness: an absent name, one create request answered 201 with an id.
C4_Witness ==
    /\ ResFinished
    /\ \A i \in 1..Len(resListed) : resListed[i].displayName # wsName
    /\ Len(resLog) = 2
    /\ resLog[2].status = 201
    /\ resPc = "returned"
    /\ resResult = resCreateResp.id
    /\ resResult # None

\* C5: for a folder without files, publish sends no request at all and ends
\* with the ValueError of build_definition_parts_from_folder.
C5_EmptyFolderNoRequest ==
    (scenario = "publish" /\ folder.nfiles = 0)
    => /\ reqLog = <<>>
       /\ pubPc \in {"idle", "build", "raised"}
       /\ pubPc = "raised" => pubError.class = "ValueError"

\* C5 witness: a publish call on an empty folder has raised.
C5_Witness ==
    /\ scenario = "publish"
    /\ folder.nfiles = 0
    /\ calls >= 1
    /\ pubPc = "raised"
    /\ pubError.class = "ValueError"

\* C6: a driver stage is started, and issues requests, only after every
\* earlier stage returned; once a stage raised the run has ended with a
\* non-zero exit and no later stage was started; the exit is zero only when
\* all four stages returned.
C6_DriverFailFast ==
    scenario = "driver" =>
      /\ \A s \in StageIds :
            (stageState[s] # "not_started" \/ stageReqs[s] > 0)
            => \A t \in 1..(s - 1) : stageState[t] = "ok"
      /\ \A s \in StageIds :
            stageState[s] = "raised"
            => /\ exitStatus = "nonzero"
               /\ drvPc = "exited"
               /\ \A t \in (s + 1)..Len(Stages) :
                     stageState[t] = "not_started" /\ stageReqs[t] = 0
      /\ exitStatus = "zero" => \A s \in StageIds : stageState[s] = "ok"
      /\ drvPc = "exited" => exitStatus # "running"

\* C6 witness: the workspace stage raised after authentication returned.
C6_Witness ==
    /\ scenario = "driver"
    /\ stageState[1] = "ok"
    /\ stageReqs[1] > 0
    /\ stageState[2] = "raised"
    /\ exitStatus = "nonzero"

\* C7: every request fabric_request sent and got a status >= 400 for
\* raised FabricApiError out of the caller, and every one answered 200..299,
\* 202 included, was returned to the caller.
C7_WrapperClassifiesStatus ==
    /\ \A i \in 1..Len(reqLog) :
          /\ reqLog[i].status >= 400
             => /\ reqLog[i].raised
                /\ i = Len(reqLog)
                /\ pubPc = "raised"
                /\ pubError.class = "FabricApiError"
          /\ (200 <= reqLog[i].status /\ reqLog[i].status <= 299)
             => ~reqLog[i].raised
    /\ \A i \in 1..Len(resLog) :
          /\ resLog[i].status >= 400
             => /\ resLog[i].raised
                /\ i = Len(resLog)
                /\ resPc = "raised"
                /\ resError.class = "FabricApiError"
          /\ (200 <= resLog[i].status /\ resLog[i].status <= 299)
             => ~resLog[i].raised

\* C7 witness: a create request answered 202 was handed back to the caller.
C7_Witness ==
    /\ scenario = "publish"
    /\ Len(reqLog) = 2
    /\ reqLog[2].status = 202
    /\ ~reqLog[2].raised

AnyEnvMissing ==
    \E i \in 1..Len(EnvNames) :
        environ[EnvNames[i]] = None \/ environ[EnvNames[i]] = ""

C9_NoRepeatedMutation ==
    /\ Cardinality(CreateReqs) <= 1
    /\ Cardinality(UpdateReqs) <= 1
    /\ \A i \in ListReqs :
          i > 1 => \E k \in CreateReqs : k < i /\ reqLog[k].status = 202
    /\ Cardinality(WsCreateReqs) <= 1

\* C9 witness: a create request failed and the call ended without another.
C9_Witness ==
    /\ PubFinished
    /\ Cardinality(CreateReqs) = 1
    /\ \E k \in CreateReqs : reqLog[k].status = 500
    /\ pubPc = "raised"

MatchingItems(listing) ==
    {i \in 1..Len(listing) :
         listing[i].displayName = PubName /\ listing[i].type = itemType}

====
